---- MODULE Spec2Model ----
(***************************************************************************)
(* Model of src/src/scripts/parse-resume.ts: the resume text extractor.    *)
(*                                                                         *)
(* Strings are TLA+ strings, read character by character with SubSeq.      *)
(* A text blob is kept as the sequence of its lines (what split('\n')      *)
(* returns), so a multi-line string is a non-empty sequence of lines and   *)
(* the empty string is the one-line sequence << "" >>.                     *)
(* The bullet glyph U+2022 is written "*" (the module is ASCII).           *)
(***************************************************************************)
EXTENDS Integers, Sequences, FiniteSets, TLC

VARIABLES
    pc,          \* position of the running function
    sectionText, \* the section text handed to an extractor, as its lines
    text,        \* main: parsed.text, as its lines
    lines,       \* parseSections: lines (trimmed, blank lines kept)
    scanI,       \* parseSections: i of the header scan loop
    seen,        \* parseSections: seen
    headerLines, \* parseSections: headerLines
    sections,    \* parseSections: sections
    resume,      \* main: resume, as JSON.stringify writes it
    skLines,     \* extractSkills: lines
    skI,         \* extractSkills: position of the for-of loop
    skills,      \* extractSkills: skills
    exLines,     \* extractExperience: lines
    exI,         \* extractExperience: i
    exItems,     \* extractExperience: items
    exCur,       \* extractExperience: company, role, duration, location
    exBullets,   \* extractExperience: bullets
    pjLines,     \* extractProjects: lines
    pjI,         \* extractProjects: i of the loop over the lines
    pjItems,     \* extractProjects: items
    pjCurrent,   \* extractProjects: current (<< >> is null)
    pjBulletsStarted, \* extractProjects: bulletsStarted
    pjByName,    \* extractProjects: byName, as its entries in insertion order
    pjP,         \* extractProjects: position of the loop over items
    pjResult,    \* extractProjects: the returned array
    edLines,     \* extractEducation: lines
    edItems      \* extractEducation: items

mainVars == << text, lines, scanI, seen, headerLines, sections, resume >>
skVars == << skLines, skI, skills >>
exVars == << exLines, exI, exItems, exCur, exBullets >>
pjVars == << pjLines, pjI, pjItems, pjCurrent, pjBulletsStarted, pjByName, pjP, pjResult >>
edVars == << edLines, edItems >>
vars == << pc, sectionText, mainVars, skVars, exVars, pjVars, edVars >>

---------------------------------------------------------------------------
(* Bounds of the model. *)
MaxDocLines == 4
MaxSkillLines == 3
MaxExpLines == 4
MaxProjLines == 3
MaxEduLines == 3

---------------------------------------------------------------------------
(* Characters and JavaScript string primitives. *)

BULLET == "*"

UpperAlpha == "ABCDEFGHIJKLMNOPQRSTUVWXYZ"
LowerAlpha == "abcdefghijklmnopqrstuvwxyz"
DigitAlpha == "0123456789"

Ch(s, i) == SubSeq(s, i, i)

CharsOf(s) == { Ch(s, i) : i \in 1..Len(s) }

UpperSet == CharsOf(UpperAlpha)
LowerSet == CharsOf(LowerAlpha)
DigitSet == CharsOf(DigitAlpha)

LowerMap ==
    [ c \in UpperSet |->
        Ch(LowerAlpha, CHOOSE i \in 1..26 : Ch(UpperAlpha, i) = c) ]

IsLetter(c) == c \in UpperSet \cup LowerSet
IsDigit(c) == c \in DigitSet
IsWordChar(c) == IsLetter(c) \/ IsDigit(c) \/ c = "_"
IsSpace(c) == c = " "

LowerCh(c) == IF c \in UpperSet THEN LowerMap[c] ELSE c

RECURSIVE ToLowerCase(_)
ToLowerCase(s) ==
    IF s = "" THEN "" ELSE LowerCh(Ch(s, 1)) \o ToLowerCase(Tail(s))

\* s.slice(k) and s.slice(0, k) for a 0-based JavaScript index k
SliceFrom(s, k) == SubSeq(s, k + 1, Len(s))
SliceTo(s, k) == SubSeq(s, 1, k)

RECURSIVE TrimStart(_)
TrimStart(s) ==
    IF s # "" /\ IsSpace(Ch(s, 1)) THEN TrimStart(Tail(s)) ELSE s

RECURSIVE TrimEnd(_)
TrimEnd(s) ==
    IF s # "" /\ IsSpace(Ch(s, Len(s)))
    THEN TrimEnd(SubSeq(s, 1, Len(s) - 1))
    ELSE s

Trim(s) == TrimEnd(TrimStart(s))

StartsAt(s, sub, i) ==
    /\ i >= 1
    /\ i + Len(sub) - 1 <= Len(s)
    /\ SubSeq(s, i, i + Len(sub) - 1) = sub

StartsWith(s, sub) == StartsAt(s, sub, 1)

Includes(s, sub) == \E i \in 1..Len(s) : StartsAt(s, sub, i)

\* 0-based index of the first / last occurrence, -1 when there is none
IndexOf(s, sub) ==
    IF Includes(s, sub)
    THEN (CHOOSE i \in 1..Len(s) :
            StartsAt(s, sub, i) /\ \A j \in 1..(i - 1) : ~StartsAt(s, sub, j)) - 1
    ELSE -1

LastIndexOf(s, sub) ==
    IF Includes(s, sub)
    THEN (CHOOSE i \in 1..Len(s) :
            StartsAt(s, sub, i) /\ \A j \in (i + 1)..Len(s) : ~StartsAt(s, sub, j)) - 1
    ELSE -1

\* s.lastIndexOf(sub, from): the last occurrence starting at 0-based index <= from
\* (a negative from is clamped to 0)
LastIndexOfFrom(s, sub, from) ==
    LET lim == IF from < 0 THEN 1 ELSE from + 1
        hits == { i \in 1..Len(s) : i <= lim /\ StartsAt(s, sub, i) }
    IN  IF hits = {} THEN -1
        ELSE (CHOOSE i \in hits : \A j \in hits : j <= i) - 1

\* s.split(/[...]/) on a class of single characters
RECURSIVE SplitFrom(_, _, _)
SplitFrom(s, seps, cur) ==
    IF s = "" THEN << cur >>
    ELSE IF Ch(s, 1) \in seps
         THEN << cur >> \o SplitFrom(Tail(s), seps, "")
         ELSE SplitFrom(Tail(s), seps, cur \o Ch(s, 1))

Split(s, seps) == SplitFrom(s, seps, "")

\* length of the run of whitespace that starts at position i
RECURSIVE SpaceRun(_, _)
SpaceRun(s, i) ==
    IF i <= Len(s) /\ IsSpace(Ch(s, i)) THEN 1 + SpaceRun(s, i + 1) ELSE 0

\* s.split(/\s{2,}/): a maximal run of two or more spaces is one separator
RECURSIVE SplitWideFrom(_, _, _)
SplitWideFrom(s, i, cur) ==
    IF i > Len(s) THEN << cur >>
    ELSE IF SpaceRun(s, i) >= 2
         THEN << cur >> \o SplitWideFrom(s, i + SpaceRun(s, i), "")
         ELSE SplitWideFrom(s, i + 1, cur \o Ch(s, i))

SplitWide(s) == SplitWideFrom(s, 1, "")

\* s.split(/\s+/)
RECURSIVE SplitSpacesFrom(_, _, _)
SplitSpacesFrom(s, i, cur) ==
    IF i > Len(s) THEN << cur >>
    ELSE IF SpaceRun(s, i) >= 1
         THEN << cur >> \o SplitSpacesFrom(s, i + SpaceRun(s, i), "")
         ELSE SplitSpacesFrom(s, i + 1, cur \o Ch(s, i))

SplitSpaces(s) == SplitSpacesFrom(s, 1, "")

\* array helpers
RECURSIVE MapTrim(_)
MapTrim(seq) ==
    IF seq = << >> THEN << >> ELSE << Trim(Head(seq)) >> \o MapTrim(Tail(seq))

RECURSIVE FilterBoolean(_)
FilterBoolean(seq) ==
    IF seq = << >> THEN << >>
    ELSE IF Head(seq) = "" THEN FilterBoolean(Tail(seq))
         ELSE << Head(seq) >> \o FilterBoolean(Tail(seq))

RECURSIVE FlatMapSplitWide(_)
FlatMapSplitWide(seq) ==
    IF seq = << >> THEN << >>
    ELSE SplitWide(Head(seq)) \o FlatMapSplitWide(Tail(seq))

Range(seq) == { seq[i] : i \in 1..Len(seq) }

\* Array.from(new Set(seq)): first occurrences, in order
RECURSIVE UniqueFrom(_, _)
UniqueFrom(seq, acc) ==
    IF seq = << >> THEN acc
    ELSE IF Head(seq) \in Range(acc) THEN UniqueFrom(Tail(seq), acc)
         ELSE UniqueFrom(Tail(seq), Append(acc, Head(seq)))

Unique(seq) == UniqueFrom(seq, << >>)

\* a.join(sep) for strings
RECURSIVE JoinWith(_, _)
JoinWith(seq, sep) ==
    IF seq = << >> THEN ""
    ELSE IF Len(seq) = 1 THEN seq[1]
         ELSE seq[1] \o sep \o JoinWith(Tail(seq), sep)

\* a.join('\n') of trimmed lines, as a multi-line string
JoinLines(seq) == IF seq = << >> THEN << "" >> ELSE seq

\* blob.trim() of a multi-line string: the blank lines at both ends go, and the
\* white space before the first and after the last character
RECURSIVE DropBlankHead(_)
DropBlankHead(seq) ==
    IF seq # << >> /\ Trim(Head(seq)) = "" THEN DropBlankHead(Tail(seq)) ELSE seq

RECURSIVE DropBlankTail(_)
DropBlankTail(seq) ==
    IF seq # << >> /\ Trim(seq[Len(seq)]) = ""
    THEN DropBlankTail(SubSeq(seq, 1, Len(seq) - 1))
    ELSE seq

TrimBlob(blob) ==
    LET core == DropBlankTail(DropBlankHead(blob))
        n == Len(core)
    IN  IF n = 0 THEN << "" >>
        ELSE IF n = 1 THEN << Trim(core[1]) >>
        ELSE << TrimStart(core[1]) >> \o SubSeq(core, 2, n - 1) \o << TrimEnd(core[n]) >>

\* section.split('\n').map(l => l.trim()).filter(Boolean)
ContentLines(blob) == FilterBoolean(MapTrim(blob))

EmptyBlob == << "" >>

\* element i of an array, for a 0-based JavaScript index
At(seq, i) == seq[i + 1]

\* a.slice(start, end) for 0-based indices 0 <= start, end <= length
ArraySlice(seq, start, end) == SubSeq(seq, start + 1, end)

\* re.test(s) for /^\b(?:w)\b/i with w a lower-case word
StartsWithWord(s, w) ==
    /\ StartsWith(ToLowerCase(s), w)
    /\ (Len(s) = Len(w) \/ ~IsWordChar(Ch(s, Len(w) + 1)))

---------------------------------------------------------------------------
(* parseSections *)

\* headerLabels: each label as the word sequences its anchored pattern accepts,
\* lower-cased; the words of a line are separated by \s+
headerLabels ==
    << [ key |-> "summary", label |-> { << "summary" >>, << "objective" >> } ],
       [ key |-> "education", label |-> { << "education" >> } ],
       [ key |-> "experience",
         label |-> { << "professional", "experience" >>, << "experience" >> } ],
       [ key |-> "skills", label |-> { << "technical", "skills" >>, << "skills" >> } ],
       [ key |-> "projects", label |-> { << "projects" >> } ],
       [ key |-> "certifications", label |-> { << "certifications" >> } ] >>

\* the words of a line, lower-cased: what the anchored patterns compare
LineWords(line) == SplitSpaces(ToLowerCase(line))

\* mutant: the label matched anywhere in the line, not the whole line
AnchoredTestAnywhere(label, words) ==
    \E alt \in label : \E o \in 1..Len(words) :
        o + Len(alt) - 1 <= Len(words) /\ SubSeq(words, o, o + Len(alt) - 1) = alt

\* new RegExp(`^${h.label.source}$`, 'i').test(line), on the words of the line
AnchoredTest(label, words) == words \in label

\* mutant: no check of seen, every line that is a label is pushed
RECURSIVE ScanLabelsEvery(_, _, _, _, _)
ScanLabelsEvery(words, i, k, hl, sn) ==
    IF k > Len(headerLabels) THEN [ headerLines |-> hl, seen |-> sn ]
    ELSE LET h == headerLabels[k]
         IN  IF AnchoredTest(h.label, words)
             THEN ScanLabelsEvery(words, i, k + 1,
                                  Append(hl, [ key |-> h.key, lineIndex |-> i ]),
                                  sn \cup { h.key })
             ELSE ScanLabelsEvery(words, i, k + 1, hl, sn)

\* the inner loop over headerLabels for line i, from label k on
RECURSIVE ScanLabels(_, _, _, _, _)
ScanLabels(words, i, k, hl, sn) ==
    IF k > Len(headerLabels) THEN [ headerLines |-> hl, seen |-> sn ]
    ELSE LET h == headerLabels[k]
         IN  IF h.key \in sn THEN ScanLabels(words, i, k + 1, hl, sn)
             ELSE IF AnchoredTest(h.label, words)
                  THEN ScanLabels(words, i, k + 1,
                                  Append(hl, [ key |-> h.key, lineIndex |-> i ]),
                                  sn \cup { h.key })
                  ELSE ScanLabels(words, i, k + 1, hl, sn)

\* headerLines.sort((a, b) => a.lineIndex - b.lineIndex): a stable sort
RECURSIVE InsertByLineIndex(_, _)
InsertByLineIndex(sorted, e) ==
    IF sorted = << >> THEN << e >>
    ELSE IF Head(sorted).lineIndex <= e.lineIndex
         THEN << Head(sorted) >> \o InsertByLineIndex(Tail(sorted), e)
         ELSE << e >> \o sorted

RECURSIVE SortByLineIndex(_)
SortByLineIndex(hl) ==
    IF hl = << >> THEN << >>
    ELSE InsertByLineIndex(SortByLineIndex(SubSeq(hl, 1, Len(hl) - 1)), hl[Len(hl)])

\* mutant: the region starts at the header line, not after it
RegionWithHeaderLine(ls, hl, k) ==
    LET start == hl[k].lineIndex
        end == IF k + 1 <= Len(hl) THEN hl[k + 1].lineIndex ELSE Len(ls)
    IN  TrimBlob(JoinLines(ArraySlice(ls, start, end)))

\* the region of entry k of the sorted list
Region(ls, hl, k) ==
    LET start == hl[k].lineIndex + 1
        end == IF k + 1 <= Len(hl) THEN hl[k + 1].lineIndex ELSE Len(ls)
    IN  TrimBlob(JoinLines(ArraySlice(ls, start, end)))

\* the loop that cuts one region per header line, from entry k of the sorted list
RECURSIVE CutRegions(_, _, _, _)
CutRegions(ls, hl, k, acc) ==
    IF k > Len(hl) THEN acc
    ELSE CutRegions(ls, hl, k + 1, (hl[k].key :> Region(ls, hl, k)) @@ acc)

CutSections(ls, hl) ==
    LET firstHeaderLine == IF Len(hl) > 0 THEN hl[1].lineIndex ELSE Len(ls)
        header == TrimBlob(JoinLines(ArraySlice(ls, 0, firstHeaderLine)))
    IN  CutRegions(ls, hl, 1, "header" :> header)

\* sections.<key> || ''
SectionOr(secs, key) == IF key \in DOMAIN secs THEN secs[key] ELSE EmptyBlob

---------------------------------------------------------------------------
(* extractHeader *)

\* parts.find(pred) || '', hits being the indices of the parts that satisfy pred
FindOr(parts, hits) ==
    IF hits = {} THEN ""
    ELSE parts[CHOOSE i \in hits : \A j \in hits : i <= j]

\* /@/
EmailRe(p) == Includes(p, "@")

\* /\+?\d[\d\s().-]{7,}\d/
PhoneRe(p) ==
    \E i \in 1..Len(p) : \E j \in (i + 8)..Len(p) :
        /\ IsDigit(Ch(p, i))
        /\ IsDigit(Ch(p, j))
        /\ \A k \in (i + 1)..(j - 1) :
               IsDigit(Ch(p, k)) \/ IsSpace(Ch(p, k)) \/ Ch(p, k) \in { "(", ")", ".", "-" }

\* /\./.test(p) && !/@/.test(p) && /malik|sha256|http/i.test(p)
WebsiteRe(p) ==
    /\ Includes(p, ".")
    /\ ~Includes(p, "@")
    /\ \E w \in { "malik", "sha256", "http" } : Includes(ToLowerCase(p), w)

\* /linkedin\.com/i
LinkedinRe(p) == Includes(ToLowerCase(p), "linkedin.com")

\* /github\.com/i
GithubRe(p) == Includes(ToLowerCase(p), "github.com")

\* the contact tokens of the second line
ContactParts(secondLine) == FilterBoolean(MapTrim(Split(secondLine, { "|" })))

ContactOf(parts) ==
    [ email |-> FindOr(parts, { i \in DOMAIN parts : EmailRe(parts[i]) }),
      phone |-> FindOr(parts, { i \in DOMAIN parts : PhoneRe(parts[i]) }),
      website |-> FindOr(parts, { i \in DOMAIN parts : WebsiteRe(parts[i]) }),
      linkedin |-> FindOr(parts, { i \in DOMAIN parts : LinkedinRe(parts[i]) }),
      github |-> FindOr(parts, { i \in DOMAIN parts : GithubRe(parts[i]) }),
      location |-> "" ]

\* mutant: the name is set whatever the first line is
HeaderNameAlways(firstLine) == "name" :> Trim(firstLine)

\* header.name is set only when firstLine is truthy
HeaderName(firstLine) ==
    IF firstLine # "" THEN "name" :> Trim(firstLine) ELSE << >>

extractHeader(ls) ==
    LET nonEmpty == FilterBoolean(MapTrim(ls))
        firstLine == IF Len(nonEmpty) >= 1 THEN nonEmpty[1] ELSE ""
        secondLine == IF Len(nonEmpty) >= 2 THEN nonEmpty[2] ELSE ""
    IN  HeaderName(firstLine) @@ ("contact" :> ContactOf(ContactParts(secondLine)))

---------------------------------------------------------------------------
(* extractList *)

RECURSIVE FlatMapSplit(_, _)
FlatMapSplit(seq, seps) ==
    IF seq = << >> THEN << >>
    ELSE Split(Head(seq), seps) \o FlatMapSplit(Tail(seq), seps)

\* !/^\b(?:Skills|Technical Skills|SKILLS)\b/i.test(s)
ListKeeps(s) ==
    s # "" /\ ~StartsWithWord(s, "skills") /\ ~StartsWithWord(s, "technical skills")

RECURSIVE FilterList(_)
FilterList(seq) ==
    IF seq = << >> THEN << >>
    ELSE IF ListKeeps(Head(seq)) THEN << Head(seq) >> \o FilterList(Tail(seq))
         ELSE FilterList(Tail(seq))

extractList(section) == FilterList(MapTrim(FlatMapSplit(section, { BULLET, "-" })))

---------------------------------------------------------------------------
(* extractSkills *)

\* line.match(/^([A-Za-z ]+):\s*(.*)$/): the groups, or no match
SkillsMatch(line) ==
    LET colon == IndexOf(line, ":")
        head == SliceTo(line, colon)
    IN  IF colon >= 1 /\ \A i \in 1..Len(head) : IsLetter(Ch(head, i)) \/ Ch(head, i) = " "
        THEN [ matched |-> TRUE, category |-> head,
               rest |-> TrimStart(SliceFrom(line, colon + 1)) ]
        ELSE [ matched |-> FALSE, category |-> "", rest |-> "" ]

\* mutant: the split on commas alone
SkillPartsNoSlash(raw) ==
    FilterBoolean(MapTrim(FlatMapSplitWide(MapTrim(Split(raw, { "," })))))

SkillParts(raw) ==
    FilterBoolean(MapTrim(FlatMapSplitWide(MapTrim(Split(raw, { ",", "/" })))))

\* one iteration of the loop over the lines
SkillsStep(sk, line) ==
    LET m == SkillsMatch(line)
    IN  IF m.matched
        THEN (Trim(m.category) :> Unique(SkillParts(Trim(m.rest)))) @@ sk
        ELSE sk

RECURSIVE SkillsFrom(_, _)
SkillsFrom(ls, sk) ==
    IF ls = << >> THEN sk ELSE SkillsFrom(Tail(ls), SkillsStep(sk, Head(ls)))

extractSkills(section) == SkillsFrom(ContentLines(section), << >>)

---------------------------------------------------------------------------
(* extractExperience *)

\* monthRe: what each alternative needs at the position where it matches; the
\* optional endings (Jan(?:uary)?) do not move the match, and Sep(?:t|tember)
\* needs the t
monthRe ==
    { "jan", "feb", "mar", "apr", "may", "jun", "jul", "aug", "sept", "oct", "nov", "dec" }

\* the first position (1-based) where one of the words starts, ignoring case; 0 if none
FirstMatch(s, words) ==
    LET low == ToLowerCase(s)
        hits == { i \in 1..Len(s) : \E w \in words : StartsAt(low, w, i) }
    IN  IF hits = {} THEN 0 ELSE CHOOSE i \in hits : \A j \in hits : i <= j

\* a word boundary between positions i - 1 and i
WordBoundary(s, i) ==
    LET before == i >= 2 /\ i - 1 <= Len(s) /\ IsWordChar(Ch(s, i - 1))
        after == i >= 1 /\ i <= Len(s) /\ IsWordChar(Ch(s, i))
    IN  before # after

\* /\b\d{4}\b/ at position i
YearAt(s, i) ==
    /\ i + 3 <= Len(s)
    /\ \A k \in i..(i + 3) : IsDigit(Ch(s, k))
    /\ WordBoundary(s, i)
    /\ WordBoundary(s, i + 4)

\* /(\b\d{4}\b|Present)/
YearOrPresent(s) == (\E i \in 1..Len(s) : YearAt(s, i)) \/ Includes(s, "Present")

\* /[A-Za-z]/
HasLetter(s) == \E i \in 1..Len(s) : IsLetter(Ch(s, i))

\* the test that makes a line the company and duration line of an entry
IsEntryLine(line) == YearOrPresent(line) /\ HasLetter(line)

\* company and duration of the matched line
CompanyDuration(line) ==
    LET m == FirstMatch(line, monthRe)
    IN  IF m # 0
        THEN [ company |-> Trim(SliceTo(line, m - 1)),
               duration |-> Trim(SliceFrom(line, m - 1)) ]
        ELSE [ company |-> line, duration |-> "" ]

\* role and location of the line after it
RoleLocation(rl) ==
    LET commaIdx == LastIndexOf(rl, ",")
    IN  IF commaIdx # -1
        THEN [ role |-> Trim(SliceTo(rl, commaIdx)),
               location |-> Trim(SliceFrom(rl, commaIdx + 1)) ]
        ELSE [ role |-> Trim(rl), location |-> "" ]

\* mutant: the cursor moved by two also when the matched line is the last one
EntryHeadSkipsTwo(ls, i) ==
    LET cd == CompanyDuration(At(ls, i))
        hasNext == i + 1 < Len(ls)
        rl == IF hasNext THEN RoleLocation(At(ls, i + 1))
              ELSE [ role |-> "", location |-> "" ]
    IN  [ cur |-> [ company |-> cd.company, role |-> rl.role,
                    duration |-> cd.duration, location |-> rl.location ],
          i |-> i + 2 ]

\* mutant: the line after the matched line read as role and location and left
\* to the bullet sub-loop
EntryHeadStepsOne(ls, i) ==
    LET cd == CompanyDuration(At(ls, i))
        hasNext == i + 1 < Len(ls)
        rl == IF hasNext THEN RoleLocation(At(ls, i + 1))
              ELSE [ role |-> "", location |-> "" ]
    IN  [ cur |-> [ company |-> cd.company, role |-> rl.role,
                    duration |-> cd.duration, location |-> rl.location ],
          i |-> i + 1 ]

\* the head of an entry matched at cursor i: its four fields and the next cursor
EntryHead(ls, i) ==
    LET cd == CompanyDuration(At(ls, i))
        hasNext == i + 1 < Len(ls)
        rl == IF hasNext THEN RoleLocation(At(ls, i + 1))
              ELSE [ role |-> "", location |-> "" ]
    IN  [ cur |-> [ company |-> cd.company, role |-> rl.role,
                    duration |-> cd.duration, location |-> rl.location ],
          i |-> IF hasNext THEN i + 2 ELSE i + 1 ]

\* line.replace(/^•\s*/, '') of a line that starts with the glyph
StripGlyph(line) == TrimStart(SliceFrom(line, 1))

\* whether the bullet sub-loop runs another iteration at cursor i
BulletLoopRuns(ls, i) == i < Len(ls) /\ ~YearOrPresent(At(ls, i))

\* mutant: the continuation joined without the space
ContinueNoSpace(last, line) == Trim(last \o line)

\* mutant: the continuation put before the bullet
ContinueBefore(last, line) == Trim(line \o " " \o last)

\* `${last} ${line}`.trim()
Continue(last, line) == Trim(last \o " " \o line)

\* one iteration of the bullet sub-loop at cursor i
BulletStep(ls, i, bullets) ==
    IF At(ls, i) = BULLET /\ i + 1 < Len(ls)
    THEN [ i |-> i + 2, bullets |-> Append(bullets, At(ls, i + 1)) ]
    ELSE IF StartsWith(At(ls, i), BULLET \o " ")
    THEN [ i |-> i + 1, bullets |-> Append(bullets, StripGlyph(At(ls, i))) ]
    ELSE IF Len(bullets) > 0
    THEN [ i |-> i + 1,
           bullets |-> [ bullets EXCEPT ![Len(bullets)] = Continue(@, At(ls, i)) ] ]
    ELSE [ i |-> i + 1, bullets |-> Append(bullets, At(ls, i)) ]

RECURSIVE CollectBullets(_, _, _)
CollectBullets(ls, i, bullets) ==
    IF BulletLoopRuns(ls, i)
    THEN LET n == BulletStep(ls, i, bullets) IN CollectBullets(ls, n.i, n.bullets)
    ELSE [ i |-> i, bullets |-> bullets ]

Entry(cur, bullets) ==
    [ company |-> cur.company, role |-> cur.role, duration |-> cur.duration,
      location |-> cur.location, bullets |-> bullets ]

RECURSIVE ExperienceFrom(_, _, _)
ExperienceFrom(ls, i, items) ==
    IF i >= Len(ls) THEN items
    ELSE IF IsEntryLine(At(ls, i))
    THEN LET h == EntryHead(ls, i)
             b == CollectBullets(ls, h.i, << >>)
         IN  ExperienceFrom(ls, b.i, Append(items, Entry(h.cur, b.bullets)))
    ELSE ExperienceFrom(ls, i + 1, items)

extractExperience(section) == ExperienceFrom(ContentLines(section), 0, << >>)

---------------------------------------------------------------------------
(* extractEducation *)

\* the month alternatives of the date pattern: all but May carry a full stop
eduMonths ==
    { "jan.", "feb.", "mar.", "apr.", "may", "jun.", "jul.", "aug.", "sep.", "oct.",
      "nov.", "dec." }

\* /\b(?:Jan\.|...|Dec\.)\s*\d{4}\b/i at position i
DateAt(s, i) ==
    \E w \in eduMonths :
        /\ StartsAt(ToLowerCase(s), w, i)
        /\ WordBoundary(s, i)
        /\ LET d == i + Len(w) + SpaceRun(s, i + Len(w))
           IN  /\ d + 3 <= Len(s)
               /\ \A k \in d..(d + 3) : IsDigit(Ch(s, k))
               /\ WordBoundary(s, d + 4)

\* s.search(re): 0-based, -1 when there is no match
DateSearch(s) ==
    LET hits == { i \in 1..Len(s) : DateAt(s, i) }
    IN  IF hits = {} THEN -1 ELSE (CHOOSE i \in hits : \A j \in hits : i <= j) - 1

\* mutant: the location taken from the last comma on
SchoolLocationAfterComma(schoolAndLoc) ==
    LET location == Trim(SliceFrom(schoolAndLoc, LastIndexOf(schoolAndLoc, ",") + 1))
    IN  IF LastIndexOf(schoolAndLoc, ",") # -1
        THEN [ school |-> Trim(SliceTo(schoolAndLoc, Len(schoolAndLoc) - Len(location))),
               location |-> location ]
        ELSE [ school |-> schoolAndLoc, location |-> "" ]

SchoolLocation(schoolAndLoc) ==
    LET lastComma == LastIndexOf(schoolAndLoc, ",")
        location == Trim(SliceFrom(schoolAndLoc,
                                   LastIndexOfFrom(schoolAndLoc, " ", lastComma - 1) + 1))
    IN  IF lastComma # -1
        THEN [ school |-> Trim(SliceTo(schoolAndLoc, Len(schoolAndLoc) - Len(location))),
               location |-> location ]
        ELSE [ school |-> schoolAndLoc, location |-> "" ]

DegreeDuration(degreeAndDuration) ==
    LET dateIdx == DateSearch(degreeAndDuration)
    IN  IF dateIdx # -1
        THEN [ degree |-> Trim(SliceTo(degreeAndDuration, dateIdx)),
               duration |-> Trim(SliceFrom(degreeAndDuration, dateIdx)) ]
        ELSE [ degree |-> degreeAndDuration, duration |-> "" ]

\* mutant: the degree line taken from the end of the section
EducationEntryLastLine(ls) ==
    LET sl == SchoolLocation(At(ls, 0))
        dd == DegreeDuration(At(ls, Len(ls) - 1))
    IN  [ school |-> sl.school, degree |-> dd.degree,
          duration |-> dd.duration, location |-> sl.location ]

\* the entry pushed when lines.length >= 2
EducationEntry(ls) ==
    LET sl == SchoolLocation(At(ls, 0))
        dd == DegreeDuration(At(ls, 1))
    IN  [ school |-> sl.school, degree |-> dd.degree,
          duration |-> dd.duration, location |-> sl.location ]

extractEducation(section) ==
    LET ls == ContentLines(section)
    IN  IF Len(ls) >= 2 THEN << EducationEntry(ls) >> ELSE << >>

---------------------------------------------------------------------------
(* extractProjects *)

\* the optional current entry and the optional link: << >> is null / undefined
NewProject(name) ==
    [ name |-> name, description |-> "", tech |-> << >>, link |-> << >>, bullets |-> << >> ]

\* ensureCurrent(): the current entry, created with the default name when null
ensureCurrent(current) == IF current = << >> THEN NewProject("Project") ELSE current[1]

RECURSIVE StripParens(_)
StripParens(s) ==
    IF s = "" THEN ""
    ELSE IF Ch(s, 1) \in { "(", ")" } THEN StripParens(Tail(s))
         ELSE Ch(s, 1) \o StripParens(Tail(s))

RECURSIVE MapStripParens(_)
MapStripParens(seq) ==
    IF seq = << >> THEN << >>
    ELSE << Trim(StripParens(Head(seq))) >> \o MapStripParens(Tail(seq))

TechParts(raw) ==
    FilterBoolean(MapStripParens(FlatMapSplitWide(MapTrim(Split(raw, { ",", "/", "|" })))))

\* mutant: the tech list replaced by the new tokens instead of united with them
addTechReplace(current, raw) ==
    [ ensureCurrent(current) EXCEPT !.tech = Unique(TechParts(raw)) ]

\* addTech(raw): the current entry afterwards
addTech(current, raw) ==
    LET c == ensureCurrent(current)
    IN  [ c EXCEPT !.tech = Unique(c.tech \o TechParts(raw)) ]

\* techWord: each alternative as its literal parts, lower-cased, \s* between them
techWord ==
    { << "react" >>, << "next" >>, << "node" >>, << "type", "script" >>,
      << "typescript" >>, << "tailwind" >>, << "python" >>, << "aws" >>, << "gcp" >>,
      << "docker" >>, << "kubernetes" >>, << "postgres" >>, << "mongodb" >>,
      << "java" >>, << "spring", "boot" >>, << "javascript" >>, << "c++" >>,
      << "c#" >>, << "sfml" >>, << "terraform" >>, << "prometheus" >>, << "grafana" >>,
      << "jenkins" >>, << "ci" >>, << "cd" >>, << "microservices" >> }

\* where an alternative that starts at position i ends (the position after it), or 0
PartsEnd(low, parts, i) ==
    IF ~StartsAt(low, parts[1], i) THEN 0
    ELSE IF Len(parts) = 1 THEN i + Len(parts[1])
    ELSE LET j == i + Len(parts[1]) + SpaceRun(low, i + Len(parts[1]))
         IN  IF StartsAt(low, parts[2], j) THEN j + Len(parts[2]) ELSE 0

\* techWord.test(line)
TechWordTest(line) ==
    LET low == ToLowerCase(line)
    IN  \E i \in 1..Len(line) :
            /\ WordBoundary(line, i)
            /\ \E parts \in techWord :
                   LET e == PartsEnd(low, parts, i)
                   IN  e # 0 /\ WordBoundary(line, e)

looksLikeTech(line) ==
    /\ TechWordTest(line)
    /\ ~(line # "" /\ Ch(line, Len(line)) \in { ".", "!", "?" })
    /\ Len(SplitSpaces(line)) <= 8

\* /https?:\/\//i.test(line)
UrlTest(line) ==
    Includes(ToLowerCase(line), "http://") \/ Includes(ToLowerCase(line), "https://")

\* length of the run of non-space characters that starts at position i
RECURSIVE NonSpaceRun(_, _)
NonSpaceRun(s, i) ==
    IF i <= Len(s) /\ ~IsSpace(Ch(s, i)) THEN 1 + NonSpaceRun(s, i + 1) ELSE 0

\* (line.match(/https?:\/\/\S+/i)?.[0] || line).trim()
LinkOf(line) ==
    LET low == ToLowerCase(line)
        SchemeLen(i) == IF StartsAt(low, "https://", i) THEN 8
                        ELSE IF StartsAt(low, "http://", i) THEN 7 ELSE 0
        hits == { i \in 1..Len(line) :
                    SchemeLen(i) # 0 /\ NonSpaceRun(line, i + SchemeLen(i)) >= 1 }
    IN  IF hits = {} THEN Trim(line)
        ELSE LET i == CHOOSE h \in hits : \A j \in hits : h <= j
             IN  Trim(SubSeq(line, i, i + SchemeLen(i) + NonSpaceRun(line, i + SchemeLen(i)) - 1))

\* /^OTHERS$/i
IsOthers(line) == ToLowerCase(line) = "others"

\* the entries pushed when an entry is closed
Flush(items, current) == IF current # << >> THEN Append(items, current[1]) ELSE items

\* [current.description, line].filter(Boolean).join(' ')
Describe(description, line) == JoinWith(FilterBoolean(<< description, line >>), " ")

\* the header line of a new entry: line.split('|', 2)
ProjectHeader(line) ==
    LET pieces == Split(line, { "|" })
        left == pieces[1]
        right == IF Len(pieces) >= 2 THEN pieces[2] ELSE ""
        fresh == NewProject(Trim(left))
    IN  IF right # "" THEN addTech(<< fresh >>, right) ELSE fresh

\* mutant: the technology test made before the continuation test
ContinuesBulletUnlessTech(ls, st) ==
    /\ st.bulletsStarted /\ st.current # << >> /\ Len(st.current[1].bullets) > 0
    /\ ~looksLikeTech(At(ls, st.i))

\* bulletsStarted && current && (current.bullets?.length || 0) > 0
ContinuesBullet(ls, st) ==
    st.bulletsStarted /\ st.current # << >> /\ Len(st.current[1].bullets) > 0

\* mutant: a header line leaves the bullets-started flag as it was
ProjectStepKeepsFlag(ls, st) ==
    LET line == At(ls, st.i)
        cur == ensureCurrent(st.current)
        next == [ st EXCEPT !.i = st.i + 1 ]
    IN  IF IsOthers(line)
        THEN [ st EXCEPT !.items = Flush(st.items, st.current), !.broke = TRUE ]
        ELSE IF Includes(line, "|")
        THEN [ next EXCEPT !.items = Flush(st.items, st.current),
                           !.current = << ProjectHeader(line) >> ]
        ELSE IF UrlTest(line)
        THEN [ next EXCEPT !.current = << [ cur EXCEPT !.link = << LinkOf(line) >> ] >> ]
        ELSE IF line = BULLET /\ st.i + 1 < Len(ls)
        THEN [ next EXCEPT !.current =
                               << [ cur EXCEPT !.bullets = Append(@, At(ls, st.i + 1)) ] >>,
                           !.i = st.i + 2,
                           !.bulletsStarted = TRUE ]
        ELSE IF StartsWith(line, BULLET \o " ")
        THEN [ next EXCEPT !.current =
                               << [ cur EXCEPT !.bullets = Append(@, StripGlyph(line)) ] >>,
                           !.bulletsStarted = TRUE ]
        ELSE IF ContinuesBullet(ls, st)
        THEN [ next EXCEPT !.current =
                   << [ cur EXCEPT !.bullets[Len(cur.bullets)] = Continue(@, line) ] >> ]
        ELSE IF looksLikeTech(line)
        THEN [ next EXCEPT !.current = << addTech(st.current, line) >> ]
        ELSE [ next EXCEPT !.current =
                   << [ cur EXCEPT !.description = Describe(@, line) ] >> ]

\* one iteration of the loop over the lines; st is the loop's state
\* [ i, items, current, bulletsStarted, broke ]
ProjectStep(ls, st) ==
    LET line == At(ls, st.i)
        cur == ensureCurrent(st.current)
        next == [ st EXCEPT !.i = st.i + 1 ]
    IN  IF IsOthers(line)
        THEN [ st EXCEPT !.items = Flush(st.items, st.current), !.broke = TRUE ]
        ELSE IF Includes(line, "|")
        THEN [ next EXCEPT !.items = Flush(st.items, st.current),
                           !.current = << ProjectHeader(line) >>,
                           !.bulletsStarted = FALSE ]
        ELSE IF UrlTest(line)
        THEN [ next EXCEPT !.current = << [ cur EXCEPT !.link = << LinkOf(line) >> ] >> ]
        ELSE IF line = BULLET /\ st.i + 1 < Len(ls)
        THEN [ next EXCEPT !.current =
                               << [ cur EXCEPT !.bullets = Append(@, At(ls, st.i + 1)) ] >>,
                           !.i = st.i + 2,
                           !.bulletsStarted = TRUE ]
        ELSE IF StartsWith(line, BULLET \o " ")
        THEN [ next EXCEPT !.current =
                               << [ cur EXCEPT !.bullets = Append(@, StripGlyph(line)) ] >>,
                           !.bulletsStarted = TRUE ]
        ELSE IF ContinuesBullet(ls, st)
        THEN [ next EXCEPT !.current =
                   << [ cur EXCEPT !.bullets[Len(cur.bullets)] = Continue(@, line) ] >> ]
        ELSE IF looksLikeTech(line)
        THEN [ next EXCEPT !.current = << addTech(st.current, line) >> ]
        ELSE [ next EXCEPT !.current =
                   << [ cur EXCEPT !.description = Describe(@, line) ] >> ]

ProjectStart == [ i |-> 0, items |-> << >>, current |-> << >>,
                  bulletsStarted |-> FALSE, broke |-> FALSE ]

ProjectLoopRuns(ls, st) == ~st.broke /\ st.i < Len(ls)

\* the entries pushed by the loop and by the push after it, which also runs
\* after the break at OTHERS
RECURSIVE ProjectItems(_, _)
ProjectItems(ls, st) ==
    IF ProjectLoopRuns(ls, st) THEN ProjectItems(ls, ProjectStep(ls, st))
    ELSE Flush(st.items, st.current)

\* mutant: the score counts the bullets and the tech tags
richnessByCount(p) ==
    Len(p.bullets) + Len(p.tech) + (IF p.description = "" THEN 0 ELSE 1)

\* richness(p)
richness(p) ==
    Len(JoinWith(p.bullets, " ")) + Len(JoinWith(p.tech, " ")) + Len(p.description)

\* name.replace(/[^a-z0-9]+/g, ' '): one space for each run of other characters
RECURSIVE CollapseNonAlnum(_, _)
CollapseNonAlnum(s, inRun) ==
    IF s = "" THEN ""
    ELSE IF Ch(s, 1) \in LowerSet \cup DigitSet
         THEN Ch(s, 1) \o CollapseNonAlnum(Tail(s), FALSE)
         ELSE IF inRun THEN CollapseNonAlnum(Tail(s), TRUE)
              ELSE " " \o CollapseNonAlnum(Tail(s), TRUE)

NameKey(name) == Trim(CollapseNonAlnum(ToLowerCase(name), FALSE))

\* mutant: an equally rich later entry replaces the kept one
DedupStepLastWins(byName, p) ==
    LET key == NameKey(p.name)
        at == { k \in 1..Len(byName) : byName[k].key = key }
    IN  IF at = {} THEN Append(byName, [ key |-> key, value |-> p ])
        ELSE LET k == CHOOSE x \in at : TRUE
             IN  IF richness(p) >= richness(byName[k].value)
                 THEN [ byName EXCEPT ![k].value = p ]
                 ELSE byName

\* one iteration of the dedup loop; byName is the Map as its entries in insertion order
DedupStep(byName, p) ==
    LET key == NameKey(p.name)
        at == { k \in 1..Len(byName) : byName[k].key = key }
    IN  IF at = {} THEN Append(byName, [ key |-> key, value |-> p ])
        ELSE LET k == CHOOSE x \in at : TRUE
             IN  IF richness(p) > richness(byName[k].value)
                 THEN [ byName EXCEPT ![k].value = p ]
                 ELSE byName

RECURSIVE DedupFrom(_, _)
DedupFrom(items, byName) ==
    IF items = << >> THEN byName
    ELSE DedupFrom(Tail(items), DedupStep(byName, Head(items)))

\* Array.from(byName.values())
MapValues(byName) == [ k \in 1..Len(byName) |-> byName[k].value ]

\* mutant: the loop over the items started at the second item
DedupSkipsFirst(items) ==
    MapValues(DedupFrom(IF items = << >> THEN items ELSE Tail(items), << >>))

\* the loop over the items and the returned array
Dedup(items) == MapValues(DedupFrom(items, << >>))

extractProjects(section) == Dedup(ProjectItems(ContentLines(section), ProjectStart))

---------------------------------------------------------------------------
(* The state machine. *)

\* sequences of at most n elements of S
SeqsUpTo(S, n) == UNION { [ 1..k -> S ] : k \in 0..n }

\* the values of the variables a function does not use
mainIdle ==
    /\ text = << >> /\ lines = << >> /\ scanI = 0 /\ seen = {}
    /\ headerLines = << >> /\ sections = << >> /\ resume = << >>

skIdle == skLines = << >> /\ skI = 0 /\ skills = << >>

exIdle ==
    /\ exLines = << >> /\ exI = 0 /\ exItems = << >>
    /\ exCur = << >> /\ exBullets = << >>

pjIdle ==
    /\ pjLines = << >> /\ pjI = 0 /\ pjItems = << >> /\ pjCurrent = << >>
    /\ pjBulletsStarted = FALSE /\ pjByName = << >> /\ pjP = 0 /\ pjResult = << >>

edIdle == edLines = << >> /\ edItems = << >>

\* ---- main and parseSections ----

\* text.split('\n'), lines = allLines.map(l => l.trim()), and the loop's start
SplitLines ==
    /\ pc = "parseSections"
    /\ lines' = MapTrim(text)
    /\ scanI' = 0
    /\ seen' = {}
    /\ headerLines' = << >>
    /\ pc' = "scan"
    /\ UNCHANGED << text, sections, resume, sectionText, skVars, exVars, pjVars, edVars >>

\* one iteration of the loop over the lines
ScanLine ==
    /\ pc = "scan"
    /\ scanI < Len(lines)
    /\ LET r == ScanLabels(LineWords(At(lines, scanI)), scanI, 1, headerLines, seen)
       IN  /\ headerLines' = r.headerLines
           /\ seen' = r.seen
    /\ scanI' = scanI + 1
    /\ UNCHANGED << pc, text, lines, sections, resume, sectionText, skVars, exVars, pjVars, edVars >>

\* the sort, the cut of the regions and the return
Cut ==
    /\ pc = "scan"
    /\ scanI >= Len(lines)
    /\ headerLines' = SortByLineIndex(headerLines)
    /\ sections' = CutSections(lines, headerLines')
    /\ pc' = "assemble"
    /\ UNCHANGED << text, lines, scanI, seen, resume, sectionText, skVars, exVars, pjVars, edVars >>

\* sections.summary?.replace(/^\b(?:Summary|Objective)\b/i, '').trim()
SummaryOf(secs) ==
    LET blob == secs["summary"]
        first == blob[1]
        cut == IF StartsWithWord(first, "summary") THEN 7
               ELSE IF StartsWithWord(first, "objective") THEN 9 ELSE 0
    IN  TrimBlob(<< SliceFrom(first, cut) >> \o Tail(blob))

\* x || undefined, as a field of the written object
FieldOrUndefined(name, blob) == IF blob # EmptyBlob THEN name :> blob ELSE << >>

\* the lines parseSections returns: lines.filter(l => l.length > 0)
ReturnedLines(ls) == FilterBoolean(ls)

\* the resume object of main, as JSON.stringify writes it (a field whose value is
\* undefined is not written)
Assembled(ls, secs) ==
    extractHeader(ReturnedLines(ls))
    @@ (IF "summary" \in DOMAIN secs
        THEN FieldOrUndefined("summary", SummaryOf(secs)) ELSE << >>)
    @@ [ skills |-> extractSkills(SectionOr(secs, "skills")),
         experience |-> extractExperience(SectionOr(secs, "experience")),
         projects |-> extractProjects(SectionOr(secs, "projects")),
         education |-> extractEducation(SectionOr(secs, "education")),
         certifications |-> extractList(SectionOr(secs, "certifications")) ]

Assemble ==
    /\ pc = "assemble"
    /\ resume' = Assembled(lines, sections)
    /\ pc' = "done"
    /\ UNCHANGED << text, lines, scanI, seen, headerLines, sections, sectionText,
                    skVars, exVars, pjVars, edVars >>

NextMain == SplitLines \/ ScanLine \/ Cut \/ Assemble

\* ---- extractSkills ----

SkillsBegin ==
    /\ pc = "extractSkills"
    /\ skLines' = ContentLines(sectionText)
    /\ skI' = 0
    /\ skills' = << >>
    /\ pc' = "skills.loop"
    /\ UNCHANGED << sectionText, mainVars, exVars, pjVars, edVars >>

SkillsLine ==
    /\ pc = "skills.loop"
    /\ skI < Len(skLines)
    /\ skills' = SkillsStep(skills, At(skLines, skI))
    /\ skI' = skI + 1
    /\ UNCHANGED << pc, sectionText, skLines, mainVars, exVars, pjVars, edVars >>

SkillsReturn ==
    /\ pc = "skills.loop"
    /\ skI >= Len(skLines)
    /\ pc' = "skills.done"
    /\ UNCHANGED << sectionText, skVars, mainVars, exVars, pjVars, edVars >>

NextSkills == SkillsBegin \/ SkillsLine \/ SkillsReturn

\* ---- extractExperience ----

ExpBegin ==
    /\ pc = "extractExperience"
    /\ exLines' = ContentLines(sectionText)
    /\ exI' = 0
    /\ exItems' = << >>
    /\ exCur' = << >>
    /\ exBullets' = << >>
    /\ pc' = "exp.scan"
    /\ UNCHANGED << sectionText, mainVars, skVars, pjVars, edVars >>

\* Scan: a line that does not start an entry
ExpSkip ==
    /\ pc = "exp.scan"
    /\ exI < Len(exLines)
    /\ ~IsEntryLine(At(exLines, exI))
    /\ exI' = exI + 1
    /\ UNCHANGED << pc, sectionText, exLines, exItems, exCur, exBullets, mainVars, skVars, pjVars, edVars >>

\* Scan: a line that starts an entry, and the line after it
ExpOpen ==
    /\ pc = "exp.scan"
    /\ exI < Len(exLines)
    /\ IsEntryLine(At(exLines, exI)) = TRUE
    /\ LET h == EntryHead(exLines, exI)
       IN  /\ exCur' = << h.cur >>
           /\ exI' = h.i
    /\ exBullets' = << >>
    /\ pc' = "exp.bullets"
    /\ UNCHANGED << sectionText, exLines, exItems, mainVars, skVars, pjVars, edVars >>

\* one iteration of the bullet sub-loop
ExpBullet ==
    /\ pc = "exp.bullets"
    /\ BulletLoopRuns(exLines, exI)
    /\ LET n == BulletStep(exLines, exI, exBullets)
       IN  /\ exI' = n.i
           /\ exBullets' = n.bullets
    /\ UNCHANGED << pc, sectionText, exLines, exItems, exCur, mainVars, skVars, pjVars, edVars >>

\* the end of the sub-loop: items.push and back to Scan
ExpEmit ==
    /\ pc = "exp.bullets"
    /\ ~BulletLoopRuns(exLines, exI)
    /\ exItems' = Append(exItems, Entry(exCur[1], exBullets))
    /\ exCur' = << >>
    /\ exBullets' = << >>
    /\ pc' = "exp.scan"
    /\ UNCHANGED << sectionText, exLines, exI, mainVars, skVars, pjVars, edVars >>

ExpReturn ==
    /\ pc = "exp.scan"
    /\ exI >= Len(exLines)
    /\ pc' = "exp.done"
    /\ UNCHANGED << sectionText, exVars, mainVars, skVars, pjVars, edVars >>

NextExperience == ExpBegin \/ ExpSkip \/ ExpOpen \/ ExpBullet \/ ExpEmit \/ ExpReturn

\* ---- extractProjects ----

ProjBegin ==
    /\ pc = "extractProjects"
    /\ pjLines' = ContentLines(sectionText)
    /\ pjI' = 0
    /\ pjItems' = << >>
    /\ pjCurrent' = << >>
    /\ pjBulletsStarted' = FALSE
    /\ pc' = "proj.loop"
    /\ UNCHANGED << sectionText, pjByName, pjP, pjResult, mainVars, skVars, exVars, edVars >>

\* one iteration of the loop over the lines; the break at OTHERS leaves the loop
ProjLine ==
    /\ pc = "proj.loop"
    /\ pjI < Len(pjLines)
    /\ LET st == ProjectStep(pjLines, [ i |-> pjI, items |-> pjItems,
                                        current |-> pjCurrent,
                                        bulletsStarted |-> pjBulletsStarted,
                                        broke |-> FALSE ])
       IN  /\ pjI' = st.i
           /\ pjItems' = st.items
           /\ pjCurrent' = st.current
           /\ pjBulletsStarted' = st.bulletsStarted
           /\ pc' = IF st.broke THEN "proj.push" ELSE "proj.loop"
    /\ UNCHANGED << sectionText, pjLines, pjByName, pjP, pjResult,
                    mainVars, skVars, exVars, edVars >>

\* the push after the loop, and the start of the loop over the items
ProjPush ==
    /\ IF pc = "proj.loop" THEN pjI >= Len(pjLines) ELSE pc = "proj.push"
    /\ pjItems' = Flush(pjItems, pjCurrent)
    /\ pjByName' = << >>
    /\ pjP' = 0
    /\ pc' = "proj.dedup"
    /\ UNCHANGED << sectionText, pjLines, pjI, pjCurrent, pjBulletsStarted, pjResult,
                    mainVars, skVars, exVars, edVars >>

\* one iteration of the loop over the items
ProjDedup ==
    /\ pc = "proj.dedup"
    /\ pjP < Len(pjItems)
    /\ pjByName' = DedupStep(pjByName, At(pjItems, pjP))
    /\ pjP' = pjP + 1
    /\ UNCHANGED << pc, sectionText, pjLines, pjI, pjItems, pjCurrent, pjBulletsStarted,
                    pjResult, mainVars, skVars, exVars, edVars >>

ProjReturn ==
    /\ pc = "proj.dedup"
    /\ pjP >= Len(pjItems)
    /\ pjResult' = MapValues(pjByName)
    /\ pc' = "proj.done"
    /\ UNCHANGED << sectionText, pjLines, pjI, pjItems, pjCurrent, pjBulletsStarted,
                    pjByName, pjP, mainVars, skVars, exVars, edVars >>

NextProjects == ProjBegin \/ ProjLine \/ ProjPush \/ ProjDedup \/ ProjReturn

\* ---- extractEducation ----

EduBegin ==
    /\ pc = "extractEducation"
    /\ edLines' = ContentLines(sectionText)
    /\ edItems' = << >>
    /\ pc' = "edu.test"
    /\ UNCHANGED << sectionText, mainVars, skVars, exVars, pjVars >>

\* lines.length >= 2: the entry of the first two lines is pushed
EduPush ==
    /\ pc = "edu.test"
    /\ Len(edLines) >= 2
    /\ edItems' = Append(edItems, EducationEntry(edLines))
    /\ pc' = "edu.return"
    /\ UNCHANGED << sectionText, edLines, mainVars, skVars, exVars, pjVars >>

EduReturn ==
    /\ IF pc = "edu.test" THEN Len(edLines) < 2 ELSE pc = "edu.return"
    /\ pc' = "edu.done"
    /\ UNCHANGED << sectionText, edVars, mainVars, skVars, exVars, pjVars >>

NextEducation == EduBegin \/ EduPush \/ EduReturn

\* ---- inputs ----

\* lines of documents that exercise the segmenter
SegmentLines ==
    { "", "Summary", "Objective", "  SKILLS ", "Summary of work",
      "Professional  Experience" }

\* lines of documents that exercise the header and the assembled record
RecordLines ==
    { "", "Jane Doe", "a@linkedin.com | 555-123-4567 | himalik.dev", "Summary",
      "Built x", "Projects" }

SkillLines ==
    { "", "Languages: Python, Go, C++", " Cloud :  AWS   GCP", "Web: a/b, a,, b  c d",
      "no colon here", "C1: x" }

ExperienceLines ==
    { "Acme Corp  Jan 2020 - Present", "Initech Sep 2019", "2019 Beta",
      "Lead, Dev, Remote", " * Built it ", "*", "improved speed", "2021" }

\* lines of projects sections that exercise the loop over the lines
ProjectLines ==
    { "App | React, Node", "* https://x.io | Go", "| Go", "others", "https://x.io/app",
      "* Built it", "*", "Uses Python / (React)", "A game" }

\* lines of projects sections whose entries share normalized names
DuplicateLines ==
    { "App | React", "app |", "APP | Redis", "A-pp | Go", "Lib | Go | C", "* fast",
      "notes on it", "Project | Go" }

\* lines of education sections
EducationLines ==
    { "", "MIT, Cambridge, MA", "State University", "BSc CS Sep. 2018 - May 2022",
      "MSc Sep 2018", "Minor in Math", "U , MA" }

\* lines of documents with a certifications region
ListLines ==
    { "", "Certifications", "AWS - Pro", "* CKA *", "Technical Skills etc", "Summary" }

\* lines of experience and projects sections that exercise the bullet logic
ExperienceBulletLines ==
    { "Acme Corp  Jan 2020 - Present", "Lead, Dev", "* Built it", "*",
      "improved speed", "* 2021 launch" }

ProjectBulletLines ==
    { "App | React", "* Built it", "*", "fast", "others", "* Lib | Go" }

\* text.split('\n') never returns an empty array
Documents(S) == SeqsUpTo(S, MaxDocLines) \ { << >> }

InitMain(S) ==
    /\ pc = "parseSections"
    /\ text \in Documents(S)
    /\ lines = << >> /\ scanI = 0 /\ seen = {}
    /\ headerLines = << >> /\ sections = << >> /\ resume = << >>
    /\ sectionText = EmptyBlob
    /\ skIdle /\ exIdle /\ pjIdle /\ edIdle

Init == InitMain(RecordLines)

InitSegment == InitMain(SegmentLines)

InitList == InitMain(ListLines)

InitSkills ==
    /\ pc = "extractSkills"
    /\ sectionText \in SeqsUpTo(SkillLines, MaxSkillLines) \ { << >> }
    /\ mainIdle /\ skIdle /\ exIdle /\ pjIdle /\ edIdle

InitExperience ==
    /\ pc = "extractExperience"
    /\ sectionText \in SeqsUpTo(ExperienceLines, MaxExpLines) \ { << >> }
    /\ mainIdle /\ skIdle /\ exIdle /\ pjIdle /\ edIdle

InitProjects ==
    /\ pc = "extractProjects"
    /\ sectionText \in SeqsUpTo(ProjectLines, MaxProjLines) \ { << >> }
    /\ mainIdle /\ skIdle /\ exIdle /\ pjIdle /\ edIdle

InitDuplicates ==
    /\ pc = "extractProjects"
    /\ sectionText \in SeqsUpTo(DuplicateLines, MaxProjLines) \ { << >> }
    /\ mainIdle /\ skIdle /\ exIdle /\ pjIdle /\ edIdle

InitEducation ==
    /\ pc = "extractEducation"
    /\ sectionText \in SeqsUpTo(EducationLines, MaxEduLines) \ { << >> }
    /\ mainIdle /\ skIdle /\ exIdle /\ pjIdle /\ edIdle

\* a call of extractExperience or of extractProjects
InitBullets ==
    /\ \/ /\ pc = "extractExperience"
          /\ sectionText \in SeqsUpTo(ExperienceBulletLines, MaxExpLines) \ { << >> }
       \/ /\ pc = "extractProjects"
          /\ sectionText \in SeqsUpTo(ProjectBulletLines, MaxProjLines) \ { << >> }
    /\ mainIdle /\ skIdle /\ exIdle /\ pjIdle /\ edIdle

Spec == Init /\ [][NextMain]_vars

SpecSegment == InitSegment /\ [][NextMain]_vars

SpecList == InitList /\ [][NextMain]_vars

SpecSkills == InitSkills /\ [][NextSkills]_vars

SpecExperience == InitExperience /\ [][NextExperience]_vars

SpecProjects == InitProjects /\ [][NextProjects]_vars

SpecDuplicates == InitDuplicates /\ [][NextProjects]_vars

SpecEducation == InitEducation /\ [][NextEducation]_vars

SpecBullets == InitBullets /\ [][NextExperience \/ NextProjects]_vars

---------------------------------------------------------------------------
(* Properties of parseSections. *)

\* the labels as texts: a line is a label when it equals one of them, ignoring
\* case and the width of the gap between two words
LabelTexts ==
    [ summary |-> { "summary", "objective" },
      education |-> { "education" },
      experience |-> { "experience", "professional experience" },
      skills |-> { "skills", "technical skills" },
      projects |-> { "projects" },
      certifications |-> { "certifications" } ]

SectionKeys == DOMAIN LabelTexts

\* a line without its case and with one space for each gap between two words
Normal(line) == JoinWith(SplitSpaces(ToLowerCase(line)), " ")

RECURSIVE MapNormal(_)
MapNormal(seq) ==
    IF seq = << >> THEN << >> ELSE << Normal(Head(seq)) >> \o MapNormal(Tail(seq))

IsLabel(key, line) == Normal(line) \in LabelTexts[key]

SetMin(S) == CHOOSE x \in S : \A y \in S : x <= y
SetMax(S) == CHOOSE x \in S : \A y \in S : x >= y

\* the layout of the document: the (0-based) label lines of each key, the keys
\* that have one (the recognized keys), the header line of each (its first label
\* line), and the lines that hold a label text among other text
Layout ==
    LET normal == MapNormal(lines)
        at == [ key \in SectionKeys |->
                  { i \in 0..(Len(lines) - 1) : At(normal, i) \in LabelTexts[key] } ]
        rec == { key \in SectionKeys : at[key] # {} }
        first == [ key \in rec |-> SetMin(at[key]) ]
    IN  [ labelAt |-> at, recognized |-> rec, first |-> first,
          headerAt |-> { first[key] : key \in rec },
          mixed |-> { i \in 0..(Len(lines) - 1) :
                        /\ \A key \in SectionKeys : i \notin at[key]
                        /\ \E key \in SectionKeys : \E t \in LabelTexts[key] :
                               Includes(At(normal, i), t) } ]

NextHeader(L, h) == SetMin({ x \in L.headerAt : x > h } \cup { Len(lines) })
KeyAt(L, h) == CHOOSE key \in L.recognized : L.first[key] = h

\* the label lines after the first one of their key
Repeats(L) ==
    { j \in 0..(Len(lines) - 1) :
        \E key \in L.recognized : j \in L.labelAt[key] /\ j > L.first[key] }

\* the region a line that is no header line lies in: its key and its bounds
RegionOf(L, i) ==
    LET before == { x \in L.headerAt : x < i }
    IN  IF before = {}
        THEN [ key |-> "header", from |-> 0, to |-> NextHeader(L, -1) ]
        ELSE [ key |-> KeyAt(L, SetMax(before)), from |-> SetMax(before) + 1,
               to |-> NextHeader(L, SetMax(before)) ]

NonBlank(seq) == SelectSeq(seq, LAMBDA l : l # "")

\* the non-blank lines from line a to the line before line b
Between(a, b) == NonBlank(ArraySlice(lines, a, b))

RECURSIVE TotalLines(_, _)
TotalLines(secs, keys) ==
    IF keys = {} THEN 0
    ELSE LET k == CHOOSE x \in keys : TRUE
         IN  Len(NonBlank(secs[k])) + TotalLines(secs, keys \ { k })

Parsed == pc \in { "assemble", "done" }

\* C1: the regions partition the non-blank lines that are not header lines. The
\* header region is the non-blank lines before the first header line, the region
\* of a recognized label is the non-blank lines between its header line and the
\* next header line (or the end), a label without a header line has no region,
\* and every non-blank line is a header line or in exactly one region.
C1_RegionsPartition ==
    Parsed =>
        LET L == Layout
        IN  /\ DOMAIN sections = { "header" } \cup L.recognized
            /\ NonBlank(sections["header"]) = Between(0, NextHeader(L, -1))
            /\ \A key \in L.recognized :
                   NonBlank(sections[key])
                       = Between(L.first[key] + 1, NextHeader(L, L.first[key]))
            /\ TotalLines(sections, DOMAIN sections) + Cardinality(L.headerAt)
                   = Len(NonBlank(lines))

C1_Witness ==
    /\ pc = "done"
    /\ Cardinality(DOMAIN sections) >= 3
    /\ \E key \in Layout.recognized :
           /\ sections[key] # EmptyBlob
           /\ NextHeader(Layout, Layout.first[key]) < Len(lines)
    /\ \E i \in 1..Len(lines) : lines[i] = ""

\* C2: each label has at most one header line, its first label line; a later
\* line that equals an already recognized label is no header line and lies, as
\* a body line, in the region of the header line before it, which runs on to the
\* next header line.
C2_FirstOccurrenceOnly ==
    LET L == Layout
    IN  /\ \A a, b \in 1..Len(headerLines) :
               headerLines[a].key = headerLines[b].key => a = b
        /\ \A a \in 1..Len(headerLines) :
               /\ headerLines[a].key \in L.recognized
               /\ headerLines[a].lineIndex = L.first[headerLines[a].key]
        /\ Parsed =>
               \A j \in Repeats(L) :
                   LET r == RegionOf(L, j)
                   IN  /\ \A a \in 1..Len(headerLines) : headerLines[a].lineIndex # j
                       /\ r.from <= j /\ j < r.to
                       /\ NonBlank(sections[r.key]) = Between(r.from, r.to)
                       /\ At(lines, j) \in Range(sections[r.key])

C2_Witness ==
    /\ pc = "done"
    /\ LET L == Layout
       IN  \E j \in Repeats(L) :
               /\ RegionOf(L, j).to < Len(lines)
               /\ RegionOf(L, j).from < j

\* C3: a header line is a line that, as a whole, equals a label of its key,
\* ignoring case; a line that holds a label among other text is no header line,
\* starts no region and stays in the region it lies in.
C3_WholeLineOnly ==
    LET L == Layout
    IN  /\ \A a \in 1..Len(headerLines) :
               IsLabel(headerLines[a].key, At(lines, headerLines[a].lineIndex))
        /\ \A i \in L.mixed : \A a \in 1..Len(headerLines) : headerLines[a].lineIndex # i
        /\ Parsed =>
               /\ \A key \in SectionKeys : key \in DOMAIN sections => key \in L.recognized
               /\ \A i \in L.mixed :
                      LET r == RegionOf(L, i)
                      IN  /\ r.from <= i /\ i < r.to
                          /\ NonBlank(sections[r.key]) = Between(r.from, r.to)

C3_Witness ==
    /\ pc = "done"
    /\ LET L == Layout
       IN  \E i \in L.mixed :
               /\ \E x \in L.headerAt : x < i
               /\ \E x \in L.headerAt : x > i

---------------------------------------------------------------------------
(* Properties of the assembled record. *)

ContactFields == { "email", "phone", "linkedin", "github", "website" }

ListFields == { "skills", "experience", "projects", "education", "certifications" }

\* C4: the name is the first non-blank line of the header region and the contact
\* fields come from its second non-blank line; with fewer lines in the header
\* region the values are missing and no later line stands in for them.
C4_HeaderRegionOnly ==
    pc = "done" =>
        LET hdr == NonBlank(sections["header"])
        IN  /\ ("name" \in DOMAIN resume) <=> (Len(hdr) >= 1)
            /\ Len(hdr) >= 1 => resume.name = hdr[1]
            /\ resume.contact
                   = ContactOf(ContactParts(IF Len(hdr) >= 2 THEN hdr[2] ELSE ""))

\* C5: no token of the contact line is the value of two contact fields.
C5_TokenClaimedOnce ==
    pc = "done" =>
        \A f, g \in ContactFields :
            (f # g /\ resume.contact[f] # "") => resume.contact[f] # resume.contact[g]

\* C6: what no extractor populated is absent: no contact field is the empty
\* string, contact.location is absent, and a section missing from the document
\* has no field in the record.
C6_AbsentNotEmpty ==
    pc = "done" =>
        /\ \A f \in DOMAIN resume.contact : resume.contact[f] # ""
        /\ "location" \notin DOMAIN resume.contact
        /\ \A key \in ListFields : key \notin DOMAIN sections => key \notin DOMAIN resume

\* C7: for every text the run is at a step of main that can be taken until the
\* record is assembled (the scan loop ends at the last line), the record holds
\* a result of every extractor, and for a blank text it has no name, no summary
\* and no skill, experience, project, education or certification item.
C7_TotalAndEmpty ==
    /\ pc \in { "parseSections", "scan", "assemble", "done" }
    /\ pc = "scan" => scanI \in 0..Len(lines)
    /\ pc = "done" =>
           /\ { "contact" } \cup ListFields \subseteq DOMAIN resume
           /\ (\A i \in 1..Len(text) : Trim(text[i]) = "") =>
                  /\ "name" \notin DOMAIN resume
                  /\ "summary" \notin DOMAIN resume
                  /\ \A key \in ListFields : DOMAIN resume[key] = {}

C7_Witness == pc = "done" /\ text = EmptyBlob /\ DOMAIN sections = { "header" }

---------------------------------------------------------------------------
(* Properties of extractSkills. *)

\* position of the first colon of a line, 0 when it has none
ColonAt(line) == IndexOf(line, ":") + 1

\* a line of the form '<letters and spaces>: <rest>'
HasSkillForm(line) ==
    /\ ColonAt(line) >= 2
    /\ \A i \in 1..(ColonAt(line) - 1) : IsLetter(Ch(line, i)) \/ Ch(line, i) = " "

\* where a token of <rest> ends: a comma, a slash, or a space next to a space
Separates(s, i) ==
    \/ Ch(s, i) \in { ",", "/" }
    \/ /\ Ch(s, i) = " "
       /\ \/ (i > 1 /\ Ch(s, i - 1) = " ")
          \/ (i < Len(s) /\ Ch(s, i + 1) = " ")

\* the piece of s that starts at position i and runs to the next separator
PieceAt(s, i) ==
    SubSeq(s, i, SetMax({ j \in i..Len(s) : \A k \in i..j : ~Separates(s, k) }))

\* the pieces at the given start positions, in the order of the positions
RECURSIVE PiecesAt(_, _)
PiecesAt(s, starts) ==
    IF starts = {} THEN << >>
    ELSE << Trim(PieceAt(s, SetMin(starts))) >> \o PiecesAt(s, starts \ { SetMin(starts) })

\* the trimmed non-empty tokens of s, in order
Tokens(s) ==
    LET starts == { i \in 1..Len(s) : ~Separates(s, i) /\ (i = 1 \/ Separates(s, i - 1)) }
    IN  SelectSeq(PiecesAt(s, starts), LAMBDA t : t # "")

\* r is toks without its repeats, in first-seen order
IsFirstSeen(r, toks) ==
    /\ Range(r) = Range(toks)
    /\ \A a, b \in 1..Len(r) : a < b =>
           /\ r[a] # r[b]
           /\ SetMin({ i \in 1..Len(toks) : toks[i] = r[a] })
                  < SetMin({ i \in 1..Len(toks) : toks[i] = r[b] })

\* C8: a line of the skills region of the form '<letters and spaces>: <rest>'
\* stores under the trimmed category the tokens of <rest> cut at commas, slashes
\* and runs of two or more spaces, trimmed, non-empty, without repeats and in
\* first-seen order, and leaves the other categories alone; a line of another
\* form leaves the mapping unchanged.
C8_SkillsLine ==
    [][(pc = "skills.loop" /\ skI < Len(skLines)) =>
         LET line == At(skLines, skI)
             category == Trim(SubSeq(line, 1, ColonAt(line) - 1))
             rest == SubSeq(line, ColonAt(line) + 1, Len(line))
         IN  IF HasSkillForm(line)
             THEN /\ DOMAIN skills' = DOMAIN skills \cup { category }
                  /\ IsFirstSeen(skills'[category], Tokens(rest))
                  /\ \A c \in DOMAIN skills \ { category } : skills'[c] = skills[c]
             ELSE skills' = skills]_vars

C8_Witness ==
    /\ pc = "skills.done"
    /\ \E c \in DOMAIN skills : Len(skills[c]) >= 3
    /\ \E i \in 1..Len(skLines) : ~HasSkillForm(skLines[i])
    /\ \E i \in 1..Len(skLines) :
           HasSkillForm(skLines[i])
           /\ Len(Tokens(SubSeq(skLines[i], ColonAt(skLines[i]) + 1, Len(skLines[i])))) >= 5

---------------------------------------------------------------------------
(* Properties of extractExperience. *)

\* the month names, lower-cased: a full name starts with its abbreviation, so an
\* occurrence of a month name starts where one of the abbreviations occurs
MonthAbbreviations ==
    { "jan", "feb", "mar", "apr", "may", "jun", "jul", "aug", "sep", "oct", "nov", "dec" }

\* position of the first month-name occurrence of a line, 0 when it has none
MonthAt(line) == FirstMatch(line, MonthAbbreviations)

\* the cursor is at a line the Scan state matches
AtEntryLine == pc = "exp.scan" /\ exI < Len(exLines) /\ IsEntryLine(At(exLines, exI))

\* C9: the entry opened at a matched line has company = the text before the
\* first month-name occurrence of the line and duration = the text from it on
\* (the whole line and nothing when there is none), role and location = the
\* text before and after the last comma of the next line (the whole line and
\* nothing when it has no comma), both empty when the matched line is the last
\* one; and the entry is emitted with these four values.
C9_EntryFields ==
    [][/\ AtEntryLine =>
            LET line == At(exLines, exI)
                m == MonthAt(line)
                last == exI + 1 >= Len(exLines)
                rl == IF last THEN "" ELSE At(exLines, exI + 1)
                comma == LastIndexOf(rl, ",") + 1
            IN  /\ exCur'[1].company = IF m = 0 THEN line ELSE Trim(SubSeq(line, 1, m - 1))
                /\ exCur'[1].duration = IF m = 0 THEN "" ELSE Trim(SubSeq(line, m, Len(line)))
                /\ exCur'[1].role = IF comma = 0 THEN rl ELSE Trim(SubSeq(rl, 1, comma - 1))
                /\ exCur'[1].location
                       = IF comma = 0 THEN "" ELSE Trim(SubSeq(rl, comma + 1, Len(rl)))
       /\ (pc = "exp.bullets" /\ pc' = "exp.scan") =>
            LET e == exItems'[Len(exItems')]
            IN  /\ Len(exItems') = Len(exItems) + 1
                /\ e.company = exCur[1].company /\ e.duration = exCur[1].duration
                /\ e.role = exCur[1].role /\ e.location = exCur[1].location]_vars

\* the bullet sub-loop is at a line that does not end it
AtBulletLine ==
    pc = "exp.bullets" /\ exI < Len(exLines) /\ ~YearOrPresent(At(exLines, exI))

\* C10: in the bullet sub-loop, a standalone glyph line followed by a line adds
\* that line as a bullet and moves the cursor by two; a line that begins with the
\* glyph and a space adds a bullet and moves the cursor by one; any other line
\* moves the cursor by one and is appended to the last bullet after exactly one
\* space, or becomes the first bullet when there is none.
C10_BulletStep ==
    [][AtBulletLine =>
         LET line == At(exLines, exI)
             n == Len(exBullets)
             standalone == line = BULLET /\ exI + 1 < Len(exLines)
             prefixed == Len(line) >= 2 /\ SubSeq(line, 1, 2) = BULLET \o " "
         IN  IF standalone
             THEN exI' = exI + 2 /\ exBullets' = exBullets \o << At(exLines, exI + 1) >>
             ELSE IF prefixed
             THEN /\ exI' = exI + 1
                  /\ Len(exBullets') = n + 1
                  /\ SubSeq(exBullets', 1, n) = exBullets
             ELSE /\ exI' = exI + 1
                  /\ IF n = 0 THEN exBullets' = << line >>
                     ELSE /\ Len(exBullets') = n
                          /\ SubSeq(exBullets', 1, n - 1) = SubSeq(exBullets, 1, n - 1)
                          /\ exBullets'[n] = exBullets[n] \o " " \o line]_vars

C10_Witness ==
    /\ pc = "exp.done"
    /\ \E k \in 1..Len(exItems) :
           /\ Len(exItems[k].bullets) = 1
           /\ exItems[k].bullets[1] = "Built it improved speed"

\* bullet collection ends at this step, before the end of the region
BulletsStopEarly == pc = "exp.bullets" /\ pc' = "exp.scan" /\ exI' < Len(exLines)

\* C11: when bullet collection stops before the end of the region, the line it
\* stopped at starts the next entry: the Scan state matches it, and the step
\* after opens an entry whose company and duration are taken from that line.
C11_StopLineOpensEntry ==
    [][/\ BulletsStopEarly =>
            /\ YearOrPresent(At(exLines, exI'))
            /\ HasLetter(At(exLines, exI'))
       /\ (pc = "exp.scan" /\ exI < Len(exLines)
              /\ YearOrPresent(At(exLines, exI)) /\ HasLetter(At(exLines, exI))) =>
            /\ pc' = "exp.bullets"
            /\ Includes(At(exLines, exI), exCur'[1].company)
            /\ Includes(At(exLines, exI), exCur'[1].duration)]_vars

---------------------------------------------------------------------------
(* Properties of extractProjects. *)

\* the (1-based) positions of the lines that are exactly OTHERS, in any case
OthersAt == { k \in 1..Len(pjLines) : ToLowerCase(pjLines[k]) = "others" }

\* the lines before the first OTHERS line
BeforeOthers == SubSeq(pjLines, 1, SetMin(OthersAt) - 1)

\* C12: the result of extractProjects is the result for the lines before the
\* first OTHERS line, so that no later line contributes to any entry, and the
\* entry open at the OTHERS line is among the emitted entries.
C12_OthersEndsExtraction ==
    (pc = "proj.done" /\ OthersAt # {}) =>
        /\ pjResult = Dedup(ProjectItems(BeforeOthers, ProjectStart))
        /\ pjCurrent # << >> => pjCurrent[1] \in Range(pjItems)

\* the (0-based) lines the step of the loop takes: the line at the cursor and,
\* with it, the line a standalone glyph takes as its text
LinesTaken == IF pc = "proj.loop" THEN pjI..(pjI' - 1) ELSE {}

\* no line before the (0-based) line j is an OTHERS line
NoOthersBefore(j) == \A k \in OthersAt : k > j

\* C13: every line that contains '|' and has no OTHERS line before it closes the
\* open entry, emitting it unchanged, and opens a new entry named by the trimmed
\* text before the first '|', with empty description, no link and no bullets, and
\* clears the bullets-started flag, whatever else the line holds and whatever
\* the state of the entry before.
C13_BarOpensEntry ==
    [][\A j \in LinesTaken :
         (Includes(At(pjLines, j), "|") /\ NoOthersBefore(j)) =>
             LET line == At(pjLines, j)
                 bar == IndexOf(line, "|") + 1
             IN  /\ pjItems' = pjItems \o pjCurrent
                 /\ pjCurrent' # << >>
                 /\ pjCurrent'[1].name = Trim(SubSeq(line, 1, bar - 1))
                 /\ pjCurrent'[1].description = ""
                 /\ pjCurrent'[1].link = << >>
                 /\ pjCurrent'[1].bullets = << >>
                 /\ pjBulletsStarted' = FALSE]_vars

\* the loop is at a line and the current entry has a bullet
AtLineAfterBullet ==
    /\ pc = "proj.loop" /\ pjI < Len(pjLines)
    /\ pjCurrent # << >> /\ Len(pjCurrent[1].bullets) > 0

\* the line holds a URL scheme, in any case
HoldsUrl(line) ==
    Includes(ToLowerCase(line), "http://") \/ Includes(ToLowerCase(line), "https://")

\* the line at the cursor starts a bullet: a standalone glyph with a line after
\* it (which is the bullet's text), or the glyph and a space
StartsBullet(ls, i) ==
    \/ At(ls, i) = BULLET /\ i + 1 < Len(ls)
    \/ Len(At(ls, i)) >= 2 /\ SubSeq(At(ls, i), 1, 2) = BULLET \o " "

\* C14: once the current entry has a bullet, a line that is not OTHERS, a '|'
\* line, a URL line or a bullet start is appended with one space to the entry's
\* last bullet and changes nothing else of the entry; and no line changes the
\* description or the tech of the entry unless it opens a new entry, even a line
\* that matches the technology vocabulary.
C14_ContinuationAfterBullet ==
    [][AtLineAfterBullet =>
         LET line == At(pjLines, pjI)
             e == pjCurrent[1]
             n == Len(e.bullets)
         IN  /\ ~Includes(line, "|") =>
                    /\ pjCurrent' # << >>
                    /\ pjCurrent'[1].name = e.name
                    /\ pjCurrent'[1].description = e.description
                    /\ pjCurrent'[1].tech = e.tech
             /\ (/\ ToLowerCase(line) # "others" /\ ~Includes(line, "|")
                 /\ ~HoldsUrl(line) /\ ~StartsBullet(pjLines, pjI)) =>
                    /\ pjI' = pjI + 1
                    /\ pjCurrent'
                         = << [ e EXCEPT !.bullets[n] = e.bullets[n] \o " " \o line ] >>]_vars

C14_Witness ==
    /\ pc = "proj.done"
    /\ \E k \in 1..Len(pjResult) :
           /\ pjResult[k].bullets = << "Built it Uses Python / (React)" >>
           /\ pjResult[k].tech = << "React", "Node" >>
           /\ pjResult[k].description = ""

\* the names a header line of the section gives: the trimmed text before its
\* first '|'
HeaderNames ==
    { Trim(SubSeq(pjLines[k], 1, IndexOf(pjLines[k], "|"))) :
        k \in { x \in 1..Len(pjLines) : Includes(pjLines[x], "|") } }

\* C15: every returned entry has a non-empty name, the text before the '|' of a
\* header line or the placeholder 'Project'.
C15_NameNeverEmpty ==
    pc = "proj.done" =>
        \A k \in 1..Len(pjResult) :
            /\ pjResult[k].name # ""
            /\ pjResult[k].name \in HeaderNames \cup { "Project" }

\* a tech list without an empty string and without two equal strings
CleanTech(tech) ==
    /\ \A a \in 1..Len(tech) : tech[a] # ""
    /\ \A a, b \in 1..Len(tech) : tech[a] = tech[b] => a = b

\* every token of the list before is in the list after, in the same order
KeepsTokens(before, after) ==
    /\ Range(before) \subseteq Range(after)
    /\ \A a, b \in 1..Len(before) : a < b =>
           SetMin({ x \in 1..Len(after) : after[x] = before[a] })
               < SetMin({ x \in 1..Len(after) : after[x] = before[b] })

\* C16: in every state of extractProjects the tech list of the current entry, of
\* every emitted entry and of every returned entry has no empty string and no
\* two equal strings, and a step that does not open a new entry keeps every token
\* of the current entry's tech list, in the same relative order.
C16_TechIsSet ==
    [][/\ \A e \in Range(pjCurrent') \cup Range(pjItems') \cup Range(pjResult') :
              CleanTech(e.tech)
       /\ (/\ pc = "proj.loop" /\ pjI < Len(pjLines) /\ pjCurrent # << >>
           /\ ~Includes(At(pjLines, pjI), "|")) =>
              /\ pjCurrent' # << >>
              /\ KeepsTokens(pjCurrent[1].tech, pjCurrent'[1].tech)]_vars

C16_Witness ==
    /\ pc = "proj.loop"
    /\ pjCurrent # << >>
    /\ pjCurrent[1].tech = << "React", "Node", "Uses Python" >>
    /\ pjLines[pjI] = "Uses Python / (React)"

\* the normalized name of an entry: lower case, each run of characters that are
\* not letters or digits turned into one space, trimmed
RECURSIVE Squeeze(_)
Squeeze(s) ==
    IF s = "" THEN ""
    ELSE IF IsLetter(Ch(s, 1)) \/ IsDigit(Ch(s, 1)) THEN Ch(s, 1) \o Squeeze(Tail(s))
    ELSE IF Len(s) >= 2 /\ ~(IsLetter(Ch(s, 2)) \/ IsDigit(Ch(s, 2))) THEN Squeeze(Tail(s))
    ELSE " " \o Squeeze(Tail(s))

NormalizedName(e) == Trim(Squeeze(ToLowerCase(e.name)))

\* the richness score: the lengths of the bullets joined by spaces, of the tech
\* joined by spaces, and of the description
RECURSIVE SumLen(_)
SumLen(seq) == IF seq = << >> THEN 0 ELSE Len(Head(seq)) + SumLen(Tail(seq))

JoinedLen(seq) == IF seq = << >> THEN 0 ELSE SumLen(seq) + Len(seq) - 1

Score(e) == JoinedLen(e.bullets) + JoinedLen(e.tech) + Len(e.description)

\* the positions in the emitted entries of the entries with the normalized name
\* of entry e
Group(e) == { i \in 1..Len(pjItems) : NormalizedName(pjItems[i]) = NormalizedName(e) }

\* the entry kept for a group: the first of its richest entries
Kept(g) ==
    SetMin({ i \in g : \A j \in g : Score(pjItems[i]) >= Score(pjItems[j]) })

\* C17: the returned sequence has exactly one entry per normalized name of the
\* emitted entries; the entry of a name is the richest of its group and, among
\* equally rich ones, the first emitted, whatever the order of the duplicates;
\* the entries are in the order in which their names first occurred.
C17_OnePerNameRichest ==
    pc = "proj.done" =>
        /\ { NormalizedName(pjResult[k]) : k \in 1..Len(pjResult) }
               = { NormalizedName(pjItems[i]) : i \in 1..Len(pjItems) }
        /\ \A a, b \in 1..Len(pjResult) :
               NormalizedName(pjResult[a]) = NormalizedName(pjResult[b]) => a = b
        /\ \A k \in 1..Len(pjResult) : pjResult[k] = pjItems[Kept(Group(pjResult[k]))]
        /\ \A a, b \in 1..Len(pjResult) : a < b =>
               SetMin(Group(pjResult[a])) < SetMin(Group(pjResult[b]))

\* a poorer duplicate came first and a richer one replaced it, in the place of
\* the first, before the entry of another name
C17_Witness ==
    /\ pc = "proj.done"
    /\ Len(pjResult) = 2
    /\ Len(pjItems) = 3
    /\ Group(pjResult[1]) = { 1, 3 }
    /\ pjResult[1] = pjItems[3]
    /\ Score(pjItems[3]) > Score(pjItems[1])

\* two different entries of one name are equally rich and the first is returned
C17_TieWitness ==
    /\ pc = "proj.done"
    /\ \E i, j \in 1..Len(pjItems) :
           /\ i < j
           /\ pjItems[i] # pjItems[j]
           /\ NormalizedName(pjItems[i]) = NormalizedName(pjItems[j])
           /\ Score(pjItems[i]) = Score(pjItems[j])
           /\ pjItems[i] \in Range(pjResult)

\* C18: the dedup step applied to the sequence extractProjects returns gives the
\* same entries in the same order.
C18_DedupIdempotent == pc = "proj.done" => Dedup(pjResult) = pjResult

\* the dedup step dropped an entry and left more than one
C18_Witness ==
    /\ pc = "proj.done"
    /\ Len(pjResult) >= 2
    /\ Len(pjItems) > Len(pjResult)
    /\ Dedup(pjItems) # pjItems

---------------------------------------------------------------------------
(* Properties of extractEducation. *)

\* the non-blank lines of the section handed to extractEducation, trimmed
EduNonBlank == SelectSeq(MapTrim(sectionText), LAMBDA l : l # "")

\* C19: extractEducation returns no entry for a section with fewer than two
\* non-blank lines and one entry otherwise, and the entry is the one returned for
\* the section that holds the first two non-blank lines and nothing else.
C19_FirstTwoLinesOnly ==
    pc = "edu.done" =>
        IF Len(EduNonBlank) < 2 THEN edItems = << >>
        ELSE /\ Len(edItems) = 1
             /\ edItems = extractEducation(SubSeq(EduNonBlank, 1, 2))

C19_Witness ==
    /\ pc = "edu.done"
    /\ Len(EduNonBlank) = 3
    /\ EduNonBlank[3] # EduNonBlank[2]
    /\ Len(edItems) = 1
    /\ edItems[1].duration # ""

\* a 3-letter month abbreviation, an optional full stop, optional spaces and a
\* 4-digit year at position i of s
MonthYearAt(s, i) ==
    /\ i + 2 <= Len(s)
    /\ ToLowerCase(SubSeq(s, i, i + 2)) \in MonthAbbreviations
    /\ \E d \in (i + 3)..(Len(s) - 3) :
           /\ \A k \in d..(d + 3) : IsDigit(Ch(s, k))
           /\ \A k \in (i + 3)..(d - 1) : Ch(s, k) = " " \/ (k = i + 3 /\ Ch(s, k) = ".")

\* C20: when the second non-blank line holds a 3-letter month abbreviation
\* followed by a 4-digit year, degree is the text before the first such
\* occurrence and duration the text from it to the end of the line; otherwise
\* degree is the whole line and duration is empty.
C20_DegreeDuration ==
    (pc = "edu.done" /\ Len(EduNonBlank) >= 2) =>
        LET line == EduNonBlank[2]
            hits == { i \in 1..Len(line) : MonthYearAt(line, i) }
        IN  /\ Len(edItems) = 1
            /\ IF hits = {}
               THEN edItems[1].degree = line /\ edItems[1].duration = ""
               ELSE /\ edItems[1].degree = Trim(SubSeq(line, 1, SetMin(hits) - 1))
                    /\ edItems[1].duration = Trim(SubSeq(line, SetMin(hits), Len(line)))

---------------------------------------------------------------------------
(* Properties of extractList. *)

\* C21: every certification of the record is trimmed and non-empty, holds no
\* bullet glyph and no hyphen, and is not a section-header label; a repeated
\* header line left in the certifications region is no certification.
C21_ListItemsClean ==
    pc = "done" =>
        \A k \in 1..Len(resume.certifications) :
            LET c == resume.certifications[k]
            IN  /\ c # "" /\ Trim(c) = c
                /\ ~Includes(c, BULLET) /\ ~Includes(c, "-")
                /\ \A key \in SectionKeys : ~IsLabel(key, c)

---------------------------------------------------------------------------
(* Properties of the bullet logic of extractExperience and extractProjects. *)

\* the words of a sequence of texts, in order
WordsOf(seq) == FilterBoolean(SplitSpaces(JoinWith(seq, " ")))

\* the bullets of a sequence of entries, in order
RECURSIVE BulletsOf(_)
BulletsOf(entries) ==
    IF entries = << >> THEN << >> ELSE Head(entries).bullets \o BulletsOf(Tail(entries))

\* a is b with some of its elements left out
RECURSIVE IsSubsequence(_, _)
IsSubsequence(a, b) ==
    IF a = << >> THEN TRUE
    ELSE IF b = << >> THEN FALSE
    ELSE IF Head(a) = Head(b) THEN IsSubsequence(Tail(a), Tail(b))
    ELSE IsSubsequence(a, Tail(b))

\* C22: the bullets of the entries built so far, read in sequence, use the lines
\* passed by the cursor in increasing order: their words are words of these
\* lines, in document order, each line word used at most once, so that the lines
\* of a bullet precede those of the next bullet and no line feeds two bullets or
\* the bullets of two entries.
C22_BulletsInDocumentOrder ==
    /\ pc \in { "exp.scan", "exp.bullets", "exp.done" } =>
           IsSubsequence(WordsOf(BulletsOf(exItems) \o exBullets),
                         WordsOf(SubSeq(exLines, 1, exI)))
    /\ pc = "proj.loop" =>
           IsSubsequence(WordsOf(BulletsOf(pjItems \o pjCurrent)),
                         WordsOf(SubSeq(pjLines, 1, pjI)))
    /\ pc = "proj.done" =>
           \A k \in 1..Len(pjResult) :
               IsSubsequence(WordsOf(pjResult[k].bullets), WordsOf(pjLines))

\* an entry with a continued bullet and a bullet after it
C22_Witness ==
    /\ pc = "exp.done"
    /\ Len(exItems) = 1
    /\ exItems[1].bullets = << "improved speed", "Built it" >>

\* the loops of extractExperience, the inner one first
LoopRank(p) == IF p = "exp.bullets" THEN 2 ELSE IF p = "exp.scan" THEN 1 ELSE 0

\* the lines up to the line after the one at cursor i
UpToNext(ls, i) == SubSeq(ls, 1, IF i + 2 <= Len(ls) THEN i + 2 ELSE Len(ls))

\* C23: every step of the scan loop and of the bullet sub-loop moves the cursor
\* forward, by at most two lines and never past the end, or else leaves the loop
\* it is in; the step's outcome depends on no line further than one past the
\* cursor; extractExperience ends with the cursor at the end of the region and
\* the loop of extractProjects at the end of the region or at an OTHERS line.
C23_CursorAdvances ==
    [][/\ pc \in { "exp.scan", "exp.bullets" } =>
            /\ exI <= exI' /\ exI' <= exI + 2 /\ exI' <= Len(exLines)
            /\ exI' = exI => LoopRank(pc') < LoopRank(pc)
            /\ pc' = "exp.done" => exI = Len(exLines)
            /\ (pc = "exp.scan" /\ exI < Len(exLines)) =>
                   EntryHead(exLines, exI) = EntryHead(UpToNext(exLines, exI), exI)
            /\ (pc = "exp.bullets" /\ exI < Len(exLines)) =>
                   BulletStep(exLines, exI, exBullets)
                       = BulletStep(UpToNext(exLines, exI), exI, exBullets)
       /\ pc = "proj.loop" =>
            /\ pjI <= pjI' /\ pjI' <= pjI + 2 /\ pjI' <= Len(pjLines)
            /\ pjI' = pjI =>
                   IF pjI = Len(pjLines) THEN pc' = "proj.dedup"
                   ELSE pc' = "proj.push" /\ ToLowerCase(At(pjLines, pjI)) = "others"
            /\ pjI' > pjI => pc' = "proj.loop"
            /\ pjI < Len(pjLines) =>
                   pjCurrent'
                       = ProjectStep(UpToNext(pjLines, pjI),
                                     [ i |-> pjI, items |-> pjItems, current |-> pjCurrent,
                                       bulletsStarted |-> pjBulletsStarted,
                                       broke |-> FALSE ]).current]_vars

\* a run that took an entry line, its role line and a standalone glyph with its
\* text, and ended at the end of the region
C23_Witness ==
    /\ pc = "exp.done"
    /\ exI = Len(exLines) /\ Len(exLines) = 4
    /\ exLines[3] = BULLET
    /\ Len(exItems) = 1 /\ exItems[1].bullets = << "improved speed" >>

\* entry i of the emitted entries has the name of entry j and strictly more
\* bullets and strictly more tech tags
MoreBulletsAndTags(i, j) ==
    /\ NormalizedName(pjItems[i]) = NormalizedName(pjItems[j])
    /\ Len(pjItems[i].bullets) > Len(pjItems[j].bullets)
    /\ Len(pjItems[i].tech) > Len(pjItems[j].tech)

RECURSIVE GlyphPrefixed(_)
GlyphPrefixed(ls) ==
    IF ls = << >> THEN << >>
    ELSE IF Head(ls) = BULLET /\ Len(ls) >= 2
    THEN << BULLET \o " " \o ls[2] >> \o GlyphPrefixed(Tail(Tail(ls)))
    ELSE << Head(ls) >> \o GlyphPrefixed(Tail(ls))

\* C25: a standalone glyph line followed by a line T and the single line
\* "glyph space T" are two forms of one bullet start: extractExperience on an
\* entry line, its role line, a glyph line and T returns what it returns with
\* the last two lines joined, and extractProjects returns the same entries
\* with every standalone glyph joined to its next line.
C25_GlyphFormsAgree ==
    /\ ( /\ pc = "exp.done"
         /\ Len(exLines) = 4
         /\ IsEntryLine(exLines[1])
         /\ exLines[3] = BULLET )
           => exItems = ExperienceFrom(SubSeq(exLines, 1, 2)
                                           \o GlyphPrefixed(SubSeq(exLines, 3, 4)), 0, << >>)
    /\ pc = "proj.done" =>
           pjResult = Dedup(ProjectItems(GlyphPrefixed(pjLines), ProjectStart))

\* the number of entries opened by the loop from the state st on: a header line
\* opens one, and so does any other line read while no entry is open
RECURSIVE OpenedFrom(_, _)
OpenedFrom(ls, st) ==
    IF ~ProjectLoopRuns(ls, st) THEN 0
    ELSE LET n == ProjectStep(ls, st)
             opens == /\ ~n.broke
                      /\ \/ Includes(At(ls, st.i), "|")
                         \/ st.current = << >> /\ n.current # << >>
         IN  (IF opens THEN 1 ELSE 0) + OpenedFrom(ls, n)

\* C26: every entry opened by extractProjects is appended to the emitted
\* sequence exactly once: before deduplication the emitted sequence holds as
\* many entries as were opened.
C26_EmittedOncePerOpened ==
    pc \in { "proj.dedup", "proj.done" } =>
        Len(pjItems) = OpenedFrom(pjLines, ProjectStart)

\* the text of a header line after its first "|"
AfterFirstBar(line) == SliceFrom(line, IndexOf(line, "|") + 1)

\* C27: the tech of an entry opened by a header line is the technology-list
\* parse of all the text after the first "|" of the line, tokens after a second
\* "|" included.
C27_HeaderTechAfterFirstBar ==
    [][ ( /\ pc = "proj.loop"
          /\ pjI < Len(pjLines)
          /\ Includes(At(pjLines, pjI), "|") )
            => pjCurrent'[1].tech = Unique(TechParts(AfterFirstBar(At(pjLines, pjI)))) ]_vars

---------------------------------------------------------------------------
(* Properties of the school line. *)

\* the characters of s that are not spaces, in order
RECURSIVE NonSpaceChars(_)
NonSpaceChars(s) ==
    IF s = "" THEN ""
    ELSE IF Ch(s, 1) = " " THEN NonSpaceChars(Tail(s))
         ELSE Ch(s, 1) \o NonSpaceChars(Tail(s))

\* the positions of the commas of a line
CommasOf(line) == { k \in 1..Len(line) : Ch(line, k) = "," }

\* where the word that ends at position c - 1 starts; c when a space precedes c
WordStartBefore(line, c) ==
    SetMin({ i \in 1..c : \A k \in i..(c - 1) : Ch(line, k) # " " })

\* C28: when the first line holds a comma, location is the suffix of the line
\* that starts at the word immediately preceding the last comma and school is
\* the prefix before it, trimmed; the two do not overlap and together hold every
\* non-space character of the line in order. Without a comma, school is the
\* whole line and location is empty.
C28_SchoolLocationSplit ==
    (pc = "edu.done" /\ Len(EduNonBlank) >= 2) =>
        LET line == EduNonBlank[1]
            e == edItems[1]
        IN  IF CommasOf(line) = {}
            THEN e.school = line /\ e.location = ""
            ELSE LET w == WordStartBefore(line, SetMax(CommasOf(line)))
                 IN  /\ e.location = SubSeq(line, w, Len(line))
                     /\ e.school = Trim(SubSeq(line, 1, w - 1))
                     /\ NonSpaceChars(e.school) \o NonSpaceChars(e.location)
                            = NonSpaceChars(line)

\* a line of two commas: the school keeps the first, the location the second
C28_Witness ==
    /\ pc = "edu.done"
    /\ Len(EduNonBlank) >= 2
    /\ EduNonBlank[1] = "MIT, Cambridge, MA"
    /\ edItems[1].school = "MIT,"
    /\ edItems[1].location = "Cambridge, MA"

---------------------------------------------------------------------------
(* Properties of the summary. *)

\* C29: the summary of the record is the text of the summary region as it was
\* cut, and is absent when the region is missing or empty; no leading word of
\* the body is removed, even when the body begins with Summary or Objective.
C29_SummaryAsCut ==
    pc = "done" =>
        IF "summary" \in DOMAIN sections /\ sections.summary # EmptyBlob
        THEN "summary" \in DOMAIN resume /\ resume.summary = sections.summary
        ELSE "summary" \notin DOMAIN resume

---------------------------------------------------------------------------
(* Properties of the line after an entry line. *)

\* the scan is at a line that opens an entry and that is not the last line
AtEntryLineWithNext == AtEntryLine /\ exI + 1 < Len(exLines)

\* C30: the line immediately after a line that opens an entry is always
\* consumed as the role and location of that entry: the cursor passes it, its
\* text before the last comma is the role and its text after it the location,
\* and it opens no entry and gives no bullet, whatever it holds.
C30_NextLineIsRole ==
    [][ AtEntryLineWithNext =>
            LET rl == At(exLines, exI + 1)
                commas == CommasOf(rl)
            IN  /\ exI' = exI + 2
                /\ pc' = "exp.bullets"
                /\ exItems' = exItems
                /\ exBullets' = << >>
                /\ exCur'[1].role = IF commas = {} THEN rl
                                    ELSE Trim(SubSeq(rl, 1, SetMax(commas) - 1))
                /\ exCur'[1].location = IF commas = {} THEN ""
                                        ELSE Trim(SubSeq(rl, SetMax(commas) + 1, Len(rl))) ]_vars

\* two lines that both hold a year and a letter give one entry, the second line
\* its role
C30_Witness ==
    /\ pc = "exp.done"
    /\ Len(exLines) = 2
    /\ IsEntryLine(exLines[1]) /\ IsEntryLine(exLines[2])
    /\ Len(exItems) = 1
    /\ exItems[1].role = exLines[2]
    /\ exItems[1].bullets = << >>

---------------------------------------------------------------------------
(* Properties of the bullets-started flag. *)

\* the loop of extractProjects reads a header line at the cursor
AtHeaderLine ==
    /\ pc = "proj.loop"
    /\ pjI < Len(pjLines)
    /\ ~IsOthers(At(pjLines, pjI))
    /\ Includes(At(pjLines, pjI), "|")

\* C31: in every state of the extractProjects loop, if the bullets-started flag
\* is true then a current entry exists and it has at least one bullet; the flag
\* is false whenever a new entry has just been opened by a "|" line.
C31_FlagImpliesBullet ==
    /\ [](pc \in { "proj.loop", "proj.push" } =>
              (pjBulletsStarted =>
                   pjCurrent # << >> /\ Len(pjCurrent[1].bullets) >= 1))
    /\ [][ AtHeaderLine =>
               /\ pjBulletsStarted' = FALSE
               /\ pjCurrent' # << >>
               /\ pjCurrent'[1].bullets = << >> ]_vars

\* a header line read after a bullet: the entry with the bullet is emitted and
\* the new entry starts with the flag false
C31_Witness ==
    /\ pc = "proj.loop"
    /\ pjI >= 2
    /\ Includes(pjLines[pjI], "|")
    /\ ~pjBulletsStarted
    /\ pjCurrent # << >>
    /\ Len(pjItems) >= 1
    /\ pjItems[Len(pjItems)].bullets # << >>

====
